---- MODULE Spec2Model ----
(***************************************************************************)
(* Model of the encoding pipeline of the QOI-style codec: Pixel            *)
(* (src/src/pixel.rs), Header (src/src/header.rs), encode_impl and Encoder *)
(* (src/src/encode.rs).  Bytes are naturals in 0..255, a Pixel is the      *)
(* tuple <<r, g, b, a>> of its four bytes.                                 *)
(***************************************************************************)
EXTENDS Integers, Sequences, FiniteSets, TLC

VARIABLES
    pc,             \* "start": no Encoder yet; "idle": Encoder built, no call running;
                    \* "loop": inside encode_impl's per-pixel loop; "failed": Encoder::new failed
    data,           \* Encoder.data: the raw input bytes
    header,         \* Encoder.header: [width, height, length]
    mode,           \* entry point of the running / last call: "buf", "vec", "stream", "none"
    buf_len,        \* length of the destination handed to encode_to_buf
    buf,            \* the Writer inside encode_impl: [kind, out, cap]
    index,          \* encode_impl: the 256-slot cache
    px_prev,        \* encode_impl: previous pixel
    hash_prev,      \* encode_impl: hash index of the last non-run pixel
    run,            \* encode_impl: run counter
    index_allowed,  \* encode_impl: tie-break eligibility flag
    i,              \* encode_impl: number of the next chunk of 4 input bytes
    emitted,        \* the chunks written by the last loop iteration, in order
    dest,           \* bytes of the destination after the last finished call
    ret,            \* result of the last finished call
    h_in,           \* Header and Pixel operations on their own: the arguments under test
    h_out           \* Header and Pixel operations on their own: the last result

vars == <<pc, data, header, mode, buf_len, buf, index, px_prev, hash_prev, run,
          index_allowed, i, emitted, dest, ret, h_in, h_out>>

encVars == <<pc, data, header, mode, buf_len, buf, index, px_prev, hash_prev, run,
             index_allowed, i, emitted, dest, ret>>

----------------------------------------------------------------------------
(* Constants of crate::consts. *)

QOI_OP_INDEX == 0

QOI_OP_DIFF == 64

QOI_OP_LUMA == 128

QOI_OP_RUN == 192

QOI_OP_RGB == 254

QOI_OP_RGBA == 255

QOI_HEADER_SIZE == 12

QOI_PADDING_SIZE == 8

QOI_PADDING == <<0, 0, 0, 0, 0, 0, 0, 1>>

QOI_PIXELS_MAX == 400000000

\* "qoif" read as a big-endian u32
QOI_MAGIC == 1903126886

\* Option<T>: None is the empty sequence, Some(x) the sequence of x alone
None == <<>>

Some(x) == <<x>>

----------------------------------------------------------------------------
(* u8 arithmetic. *)

wrapping_add(a, b) == (a + b) % 256

wrapping_sub(a, b) == (a - b + 256) % 256

RECURSIVE BitOr(_, _)
BitOr(a, b) ==
    IF a = 0 THEN b
    ELSE IF b = 0 THEN a
    ELSE (IF a % 2 = 1 \/ b % 2 = 1 THEN 1 ELSE 0) + 2 * BitOr(a \div 2, b \div 2)

RECURSIVE BitAnd(_, _)
BitAnd(a, b) ==
    IF a = 0 \/ b = 0 THEN 0
    ELSE (IF a % 2 = 1 /\ b % 2 = 1 THEN 1 ELSE 0) + 2 * BitAnd(a \div 2, b \div 2)

\* u8 << k
Shl8(a, k) == (a * (2 ^ k)) % 256

\* u8 >> k
Shr8(a, k) == a \div (2 ^ k)

----------------------------------------------------------------------------
(* Pixel (src/src/pixel.rs). *)

PixelNew == <<0, 0, 0, 0>>

with_a(p, value) == <<p[1], p[2], p[3], value>>

as_rgba(p) == <<p[1], p[2], p[3], p[4]>>

\* Pixel::read: the four bytes of one input chunk
PixelRead(s) == <<s[1], s[2], s[3], s[4]>>

\* u32::from_le_bytes(self.0) as u64, as 16-bit limbs, least significant first
PixelAsU64(p) == <<p[1] + 256 * p[2], p[3] + 256 * p[4], 0, 0>>

\* u64 values are tuples of four 16-bit limbs, least significant first
And64(x, m) == <<BitAnd(x[1], m[1]), BitAnd(x[2], m[2]), BitAnd(x[3], m[3]), BitAnd(x[4], m[4])>>

Or64(x, y) == <<BitOr(x[1], y[1]), BitOr(x[2], y[2]), BitOr(x[3], y[3]), BitOr(x[4], y[4])>>

\* u64 << 32
Shl32(x) == <<0, 0, x[1], x[2]>>

\* HashSpread with the two masks exchanged
HashSpreadSwapped(v) ==
    Or64(Shl32(And64(v, <<255, 255, 0, 0>>)), And64(v, <<65280, 65280, 0, 0>>))

\* ((v & 0xff00_ff00) << 32) | (v & 0x00ff_00ff)
HashSpread(v) ==
    Or64(Shl32(And64(v, <<65280, 65280, 0, 0>>)), And64(v, <<255, 255, 0, 0>>))

\* 0x0300_0700_0005_000b as 16-bit limbs, least significant first
HashMul == <<11, 5, 1792, 768>>

\* u64::wrapping_mul on 16-bit limbs: schoolbook product, limbs above the fourth dropped
WrappingMul64(x, y) ==
    LET c1 == x[1] * y[1]
        c2 == x[1] * y[2] + x[2] * y[1] + (c1 \div 65536)
        c3 == x[1] * y[3] + x[2] * y[2] + x[3] * y[1] + (c2 \div 65536)
        c4 == x[1] * y[4] + x[2] * y[3] + x[3] * y[2] + x[4] * y[1] + (c3 \div 65536)
    IN  <<c1 % 65536, c2 % 65536, c3 % 65536, c4 % 65536>>

\* hash_index without the final `& 63`
hash_index_NoMask(p) ==
    WrappingMul64(HashSpread(PixelAsU64(p)), HashMul)[4] \div 256

\* (s.wrapping_mul(K) >> 56) as u8 & 63
hash_index(p) ==
    BitAnd(WrappingMul64(HashSpread(PixelAsU64(p)), HashMul)[4] \div 256, 63)

update_diff(p, b1) ==
    <<wrapping_sub(wrapping_add(p[1], BitAnd(Shr8(b1, 4), 3)), 2),
      wrapping_sub(wrapping_add(p[2], BitAnd(Shr8(b1, 2), 3)), 2),
      wrapping_sub(wrapping_add(p[3], BitAnd(b1, 3)), 2),
      p[4]>>

update_luma(p, b1, b2) ==
    LET vg   == wrapping_sub(BitAnd(b1, 63), 32)
        vg_8 == wrapping_sub(vg, 8)
        vr   == wrapping_add(vg_8, BitAnd(Shr8(b2, 4), 15))
        vb   == wrapping_add(vg_8, BitAnd(b2, 15))
    IN  <<wrapping_add(p[1], vr), wrapping_add(p[2], vg), wrapping_add(p[3], vb), p[4]>>

\* encode_into that never looks at alpha
encode_into_NoAlpha(p, prev) ==
    LET vr_2 == wrapping_add(wrapping_sub(p[1], prev[1]), 2)
        vg_2 == wrapping_add(wrapping_sub(p[2], prev[2]), 2)
        vb_2 == wrapping_add(wrapping_sub(p[3], prev[3]), 2)
    IN  IF BitOr(BitOr(BitOr(vr_2, vg_2), vb_2), 3) = 3
        THEN <<BitOr(BitOr(BitOr(QOI_OP_DIFF, Shl8(vr_2, 4)), Shl8(vg_2, 2)), vb_2)>>
        ELSE <<QOI_OP_RGB, p[1], p[2], p[3]>>

\* encode_into without the luma chunk
encode_into_NoLuma(p, prev) ==
    IF p[4] = prev[4]
    THEN LET vr_2 == wrapping_add(wrapping_sub(p[1], prev[1]), 2)
             vg_2 == wrapping_add(wrapping_sub(p[2], prev[2]), 2)
             vb_2 == wrapping_add(wrapping_sub(p[3], prev[3]), 2)
         IN  IF BitOr(BitOr(BitOr(vr_2, vg_2), vb_2), 3) = 3
             THEN <<BitOr(BitOr(BitOr(QOI_OP_DIFF, Shl8(vr_2, 4)), Shl8(vg_2, 2)), vb_2)>>
             ELSE <<QOI_OP_RGB, p[1], p[2], p[3]>>
    ELSE <<QOI_OP_RGBA, p[1], p[2], p[3], p[4]>>

\* Pixel::encode_into: the bytes of the chunk written for px after px_prev
encode_into(p, prev) ==
    IF p[4] = prev[4]
    THEN LET vg    == wrapping_sub(p[2], prev[2])
             vg_32 == wrapping_add(vg, 32)
         IN  IF BitOr(vg_32, 63) = 63
             THEN LET vr   == wrapping_sub(p[1], prev[1])
                      vb   == wrapping_sub(p[3], prev[3])
                      vg_r == wrapping_sub(vr, vg)
                      vg_b == wrapping_sub(vb, vg)
                      vr_2 == wrapping_add(vr, 2)
                      vg_2 == wrapping_add(vg, 2)
                      vb_2 == wrapping_add(vb, 2)
                  IN  IF BitOr(BitOr(BitOr(vr_2, vg_2), vb_2), 3) = 3
                      THEN <<BitOr(BitOr(BitOr(QOI_OP_DIFF, Shl8(vr_2, 4)), Shl8(vg_2, 2)), vb_2)>>
                      ELSE LET vg_r_8 == wrapping_add(vg_r, 8)
                               vg_b_8 == wrapping_add(vg_b, 8)
                           IN  IF BitOr(BitOr(vg_r_8, vg_b_8), 15) = 15
                               THEN <<BitOr(QOI_OP_LUMA, vg_32), BitOr(Shl8(vg_r_8, 4), vg_b_8)>>
                               ELSE <<QOI_OP_RGB, p[1], p[2], p[3]>>
             ELSE <<QOI_OP_RGB, p[1], p[2], p[3]>>
    ELSE <<QOI_OP_RGBA, p[1], p[2], p[3], p[4]>>

----------------------------------------------------------------------------
(* Results: Ok(v) and Err(e). *)

Ok(v) == [ok |-> TRUE, val |-> v]

Err(e) == [ok |-> FALSE, err |-> e]

InvalidImageDimensions(w, h) == [kind |-> "InvalidImageDimensions", width |-> w, height |-> h]

InvalidImageLength(size, w, h) ==
    [kind |-> "InvalidImageLength", size |-> size, width |-> w, height |-> h]

InvalidMagic(magic) == [kind |-> "InvalidMagic", magic |-> magic]

OutputBufferTooSmall == [kind |-> "OutputBufferTooSmall"]

DataLengthNotSet == [kind |-> "DataLengthNotSet"]

UnexpectedBufferEnd == [kind |-> "UnexpectedBufferEnd"]

----------------------------------------------------------------------------
(* Header (src/src/header.rs). *)

\* (width as usize).saturating_mul(height as usize) for u16 operands, as the pair
\* <<q, r>> with value q * 65536 + r; the product of two u16 never saturates a usize
MulWide(a, b) ==
    LET lo == a * (b % 256)
        hi == a * (b \div 256)
        t  == lo + (hi % 256) * 256
    IN  <<hi \div 256 + t \div 65536, t % 65536>>

WideOf(n) == <<n \div 65536, n % 65536>>

WideGt(x, y) == x[1] > y[1] \/ (x[1] = y[1] /\ x[2] > y[2])

\* defined for values below 2^31
WideToInt(x) == x[1] * 65536 + x[2]

\* try_new rejecting the largest allowed pixel count
try_new_OffByOne(width, height, length) ==
    IF MulWide(width, height) = WideOf(0)
       \/ ~WideGt(WideOf(QOI_PIXELS_MAX), MulWide(width, height))
    THEN Err(InvalidImageDimensions(width, height))
    ELSE Ok([width |-> width, height |-> height, length |-> length])

\* Header::try_new
try_new(width, height, length) ==
    LET n_pixels == MulWide(width, height)
    IN  IF n_pixels = WideOf(0) \/ WideGt(n_pixels, WideOf(QOI_PIXELS_MAX))
        THEN Err(InvalidImageDimensions(width, height))
        ELSE Ok([width |-> width, height |-> height, length |-> length])

\* Header::n_pixels, for headers that try_new accepted
n_pixels(h) == WideToInt(MulWide(h.width, h.height))

\* uN::to_le_bytes, n bytes
RECURSIVE to_le_bytes(_, _)
to_le_bytes(x, n) == IF n = 0 THEN <<>> ELSE <<x % 256>> \o to_le_bytes(x \div 256, n - 1)

\* uN::from_le_bytes
RECURSIVE from_le_bytes(_)
from_le_bytes(s) == IF s = <<>> THEN 0 ELSE s[1] + 256 * from_le_bytes(Tail(s))

\* out[from..from + v.len()].copy_from_slice(v), from counted from 0
CopyInto(out, from, v) ==
    [k \in 1..Len(out) |-> IF k > from /\ k <= from + Len(v) THEN v[k - from] ELSE out[k]]

\* Header::encode with height written before width
HeaderEncodeSwapped(h) ==
    IF h.length = None
    THEN Err(DataLengthNotSet)
    ELSE Ok(CopyInto(CopyInto(CopyInto(CopyInto([k \in 1..QOI_HEADER_SIZE |-> 0],
                0, to_le_bytes(QOI_MAGIC, 4)),
                4, to_le_bytes(h.height, 2)),
                6, to_le_bytes(h.width, 2)),
                8, to_le_bytes(h.length[1], 4)))

\* Header::encode
HeaderEncode(h) ==
    IF h.length = None
    THEN Err(DataLengthNotSet)
    ELSE Ok(CopyInto(CopyInto(CopyInto(CopyInto([k \in 1..QOI_HEADER_SIZE |-> 0],
                0, to_le_bytes(QOI_MAGIC, 4)),
                4, to_le_bytes(h.width, 2)),
                6, to_le_bytes(h.height, 2)),
                8, to_le_bytes(h.length[1], 4)))

\* Header::decode
HeaderDecode(d) ==
    IF Len(d) < QOI_HEADER_SIZE
    THEN Err(UnexpectedBufferEnd)
    ELSE LET magic  == from_le_bytes(SubSeq(d, 1, 4))
             width  == from_le_bytes(SubSeq(d, 5, 6))
             height == from_le_bytes(SubSeq(d, 7, 8))
             length == from_le_bytes(SubSeq(d, 9, 12))
         IN  IF magic # QOI_MAGIC
             THEN Err(InvalidMagic(magic))
             ELSE try_new(width, height, Some(length))

\* encode_max_len without the tag byte of each pixel
encode_max_len_NoTags(width, height) ==
    QOI_HEADER_SIZE + WideToInt(MulWide(width, height)) * 4 + QOI_PADDING_SIZE

\* encode_max_len (src/src/encode.rs), for headers that try_new accepted
encode_max_len(width, height) ==
    LET n == WideToInt(MulWide(width, height))
    IN  QOI_HEADER_SIZE + n * 4 + n + QOI_PADDING_SIZE

\* Encoder::required_buf_len / Header::encode_max_len
required_buf_len(h) == encode_max_len(h.width, h.height)

----------------------------------------------------------------------------
(* Writer (crate::utils): BytesMut over the destination's tail, and GenericWriter *)
(* over a stream.  A BytesMut write fails when fewer bytes remain than are        *)
(* written; the stream of the model is a growable vector and never fails.         *)

BytesMut(len) == [kind |-> "BytesMut", out |-> <<>>, cap |-> len]

GenericWriter == [kind |-> "GenericWriter", out |-> <<>>, cap |-> 0]

NoWriter == [kind |-> "none", out |-> <<>>, cap |-> 0]

\* Writer::write_many: Ok(writer) or Err
write_many(b, v) ==
    IF b.kind = "BytesMut"
    THEN IF Len(v) <= b.cap
         THEN Ok([b EXCEPT !.out = @ \o v, !.cap = @ - Len(v)])
         ELSE Err(OutputBufferTooSmall)
    ELSE Ok([b EXCEPT !.out = @ \o v])

\* Writer::write_one
write_one(b, v) == write_many(b, <<v>>)

\* a sequence of writes joined by `?`: the first failure is returned, the writes
\* before it stay in the destination
RECURSIVE write_all(_, _)
write_all(b, chunks) ==
    IF chunks = <<>> THEN [res |-> Ok(b), last |-> b]
    ELSE LET r == IF Len(Head(chunks)) = 1
                  THEN write_one(b, Head(chunks)[1])
                  ELSE write_many(b, Head(chunks))
         IN  IF r.ok THEN write_all(r.val, Tail(chunks))
             ELSE [res |-> r, last |-> b]

----------------------------------------------------------------------------
(* encode_impl (src/src/encode.rs). *)

\* the pixel encode_impl starts from: Pixel::new().with_a(0xff)
PxStart == with_a(PixelNew, 255)

\* data.len() / 4
ImplNPixels(d) == Len(d) \div 4

\* the k-th chunk of data.chunks_exact(4), k counted from 0
Chunk(d, k) == SubSeq(d, 4 * k + 1, 4 * k + 4)

\* RunFlushByte without the index_allowed guard
RunFlushByteAlwaysIndex(r, allowed, hprev) ==
    IF r = 1 THEN BitOr(QOI_OP_INDEX, hprev) ELSE BitOr(QOI_OP_RUN, r - 1)

\* the byte that closes a pending run when a different pixel arrives (default build)
RunFlushByte(r, allowed, hprev) ==
    IF r = 1 /\ allowed THEN BitOr(QOI_OP_INDEX, hprev) ELSE BitOr(QOI_OP_RUN, r - 1)

\* CacheHit comparing the slot with the previous pixel
CacheHitPrev(slot, px_rgba) == slot = px_prev

\* CacheHit comparing the colour channels only
CacheHitRgb(slot, px_rgba) ==
    slot[1] = px_rgba[1] /\ slot[2] = px_rgba[2] /\ slot[3] = px_rgba[3]

\* whether the cache slot already holds the pixel
CacheHit(slot, px_rgba) == slot = px_rgba

\* RunMustFlush that forgets the last pixel of the image
RunMustFlushNoLast(r, k, n) == r = 62

\* RunMustFlush with the cap of a 6-bit field read as 64
RunMustFlushAt64(r, k, n) == r = 64 \/ k = n - 1

\* whether a run that has grown to r at pixel k of n is written now
RunMustFlush(r, k, n) == r = 62 \/ k = n - 1

\* one iteration of the loop over data.chunks_exact(4): the new locals and the
\* chunks it writes, in order
LoopBody(px) ==
    IF px = px_prev
    THEN LET run1 == run + 1
         IN  IF RunMustFlush(run1, i, ImplNPixels(data))
             THEN [run |-> 0, index_allowed |-> index_allowed, hash_prev |-> hash_prev,
                   index |-> index, px_prev |-> px_prev,
                   chunks |-> << <<BitOr(QOI_OP_RUN, run1 - 1)>> >>]
             ELSE [run |-> run1, index_allowed |-> index_allowed, hash_prev |-> hash_prev,
                   index |-> index, px_prev |-> px_prev, chunks |-> <<>>]
    ELSE LET flush   == IF run # 0
                        THEN << <<RunFlushByte(run, index_allowed, hash_prev)>> >>
                        ELSE <<>>
             px_rgba == as_rgba(px)
             h       == hash_index(px_rgba)
         IN  IF CacheHit(index[h], px_rgba)
             THEN [run |-> 0, index_allowed |-> TRUE, hash_prev |-> h,
                   index |-> index, px_prev |-> px,
                   chunks |-> flush \o << <<BitOr(QOI_OP_INDEX, h)>> >>]
             ELSE [run |-> 0, index_allowed |-> TRUE, hash_prev |-> h,
                   index |-> [index EXCEPT ![h] = px_rgba], px_prev |-> px,
                   chunks |-> flush \o <<encode_into(px, px_prev)>>]

\* [Pixel::new(); 256]
IndexInit == [s \in 0..255 |-> PixelNew]

\* px_prev.hash_index() before the loop
HashStart == hash_index(PxStart)

\* the locals of encode_impl before the loop
LocalsInit ==
    /\ index' = IndexInit
    /\ px_prev' = PxStart
    /\ hash_prev' = HashStart
    /\ run' = 0
    /\ index_allowed' = FALSE
    /\ i' = 0
    /\ emitted' = <<>>

NoDest == [head |-> <<>>, tail |-> <<>>]

NoHeader == [width |-> 0, height |-> 0, length |-> None]

----------------------------------------------------------------------------
(* Inputs. *)

\* most pixels of one image handed to the per-pixel loop on its own (SpecImpl)
MaxPixels == 4

\* most pixels of one buffer handed to the Encoder's entry points (Spec)
MaxApiPixels == 2

\* opaque black (the start pixel), the zero pixel (the cache's initial content), a
\* second pixel of slot 0, a diff, a luma and two literal-RGB neighbours of black;
\* <<64, 0, 0, 255>> and <<0, 64, 0, 255>> share black's slot
Palette ==
    { <<0, 0, 0, 255>>, <<0, 0, 0, 0>>, <<0, 0, 0, 128>>, <<1, 0, 0, 255>>,
      <<10, 10, 10, 255>>, <<64, 0, 0, 255>>, <<0, 64, 0, 255>> }

RECURSIVE Flatten(_)
Flatten(ps) == IF ps = <<>> THEN <<>> ELSE Head(ps) \o Flatten(Tail(ps))

\* the buffers of exactly k whole 4-byte pixels
ImagesOf(k) == { Flatten(ps) : ps \in [1..k -> Palette] }

\* buffers whose length is no multiple of 4, filled with opaque black
Ragged ==
    { SubSeq(Flatten([k \in 1..MaxApiPixels |-> PxStart]), 1, n) :
        n \in { m \in 1..(4 * MaxApiPixels) : m % 4 # 0 } }

\* what Spec hands to Encoder::new
DataSet == UNION { ImagesOf(k) : k \in 0..MaxApiPixels } \cup Ragged

ImgDims == { <<0, 1>>, <<1, 0>> } \cup { <<w, 1>> : w \in 1..MaxApiPixels }

\* the pixels of a buffer read 4 bytes at a time
Pixels(d) == [k \in 1..ImplNPixels(d) |-> PixelRead(Chunk(d, k - 1))]

----------------------------------------------------------------------------
(* Encoder (src/src/encode.rs). *)

\* Encoder::new
EncoderNew(d, width, height) ==
    LET h == try_new(width, height, None)
    IN  IF ~h.ok THEN h
        ELSE LET size       == Len(d)
                 n_channels == size \div n_pixels(h.val)
             IN  IF n_pixels(h.val) * n_channels # size
                 THEN Err(InvalidImageLength(size, width, height))
                 ELSE Ok([data |-> d, header |-> h.val])

\* Encoder::new(d, width, height)
NewOn(d, width, height) ==
    /\ pc = "start"
    /\ LET wh == <<width, height>>
           r  == EncoderNew(d, width, height)
          IN  /\ ret' = [op |-> "new", res |-> IF r.ok THEN Ok(0) ELSE r,
                         arg |-> [size |-> Len(d), width |-> wh[1], height |-> wh[2]]]
              /\ IF r.ok
                 THEN /\ pc' = "idle"
                      /\ data' = r.val.data
                      /\ header' = r.val.header
                 ELSE /\ pc' = "failed"
                      /\ UNCHANGED <<data, header>>
    /\ UNCHANGED <<mode, buf_len, buf, index, px_prev, hash_prev, run, index_allowed, i,
                   emitted, dest, h_in, h_out>>

\* Encoder::new on any buffer and any dimensions
New ==
    /\ pc = "start"
    /\ \E d \in DataSet, wh \in ImgDims : NewOn(d, wh[1], wh[2])

\* Encoder::new on an image of k whole 4-byte pixels, k wide and 1 high
NewImage ==
    /\ pc = "start"
    /\ \E k \in 1..MaxPixels : \E d \in ImagesOf(k) : NewOn(d, k, 1)

\* Encoder::encode_to_buf up to the first loop iteration: the capacity check, the
\* split of the destination, and encode_impl's initialisation
EncodeToBufEnter(m, len) ==
    /\ mode' = m
    /\ buf_len' = len
    /\ IF len < required_buf_len(header)
       THEN /\ ret' = [op |-> m, res |-> Err(OutputBufferTooSmall), arg |-> len]
            /\ dest' = NoDest
            /\ UNCHANGED <<pc, buf, index, px_prev, hash_prev, run, index_allowed, i, emitted>>
       ELSE /\ pc' = "loop"
            /\ buf' = BytesMut(len - QOI_HEADER_SIZE)
            /\ LocalsInit
            /\ ret' = [op |-> m, res |-> Ok(0), arg |-> len]
            /\ dest' = NoDest
    /\ UNCHANGED <<data, header, h_in, h_out>>

EncodeToBuf ==
    /\ pc = "idle"
    /\ \E len \in { required_buf_len(header) - 1, required_buf_len(header) + 1 } :
          EncodeToBufEnter("buf", len)

\* Encoder::encode_to_vec: encode_to_buf on a vector of required_buf_len() bytes
EncodeToVec ==
    /\ pc = "idle"
    /\ EncodeToBufEnter("vec", required_buf_len(header))

\* Encoder::encode_to_stream up to the first loop iteration
EncodeToStream ==
    /\ pc = "idle"
    /\ mode' = "stream"
    /\ buf_len' = 0
    /\ LET head == HeaderEncode(header)
       IN  IF ~head.ok
           THEN /\ ret' = [op |-> "stream", res |-> head, arg |-> 0]
                /\ dest' = NoDest
                /\ UNCHANGED <<pc, buf, index, px_prev, hash_prev, run, index_allowed, i,
                               emitted>>
           ELSE /\ pc' = "loop"
                /\ buf' = GenericWriter
                /\ LocalsInit
                /\ ret' = [op |-> "stream", res |-> Ok(0), arg |-> 0]
                /\ dest' = [head |-> head.val, tail |-> <<>>]
    /\ UNCHANGED <<data, header, h_in, h_out>>

\* leaving encode_impl: its locals are dropped
LocalsDrop ==
    /\ buf' = NoWriter
    /\ LocalsInit

\* one iteration of encode_impl's loop
PixelStep ==
    /\ pc = "loop"
    /\ i < ImplNPixels(data)
    /\ \E s \in {LoopBody(PixelRead(Chunk(data, i)))} :
       \E w \in {write_all(buf, s.chunks)} :
           IF w.res.ok
           THEN /\ buf' = w.res.val
                /\ index' = s.index
                /\ px_prev' = s.px_prev
                /\ hash_prev' = s.hash_prev
                /\ run' = s.run
                /\ index_allowed' = s.index_allowed
                /\ i' = i + 1
                /\ emitted' = s.chunks
                /\ UNCHANGED <<pc, dest, ret>>
           ELSE /\ pc' = "idle"
                /\ ret' = [ret EXCEPT !.res = w.res]
                /\ dest' = [dest EXCEPT !.tail = w.last.out]
                /\ LocalsDrop
    /\ UNCHANGED <<data, header, mode, buf_len, h_in, h_out>>

\* EndMarker that writes nothing
EndMarkerMissing(b) == Ok(b)

\* buf.write_many(&QOI_PADDING)
EndMarker(b) == write_many(b, QOI_PADDING)

\* the end of encode_impl (the end marker, the byte count) and the rest of the
\* entry point that called it
Finish ==
    /\ pc = "loop"
    /\ i = ImplNPixels(data)
    /\ pc' = "idle"
    /\ LET w == EndMarker(buf)
       IN  IF ~w.ok
           THEN /\ ret' = [ret EXCEPT !.res = w]
                /\ dest' = [dest EXCEPT !.tail = buf.out]
                /\ UNCHANGED header
           ELSE LET n_written == Len(w.val.out)
                IN  IF mode = "stream"
                    THEN /\ ret' = [ret EXCEPT !.res = Ok(n_written + QOI_HEADER_SIZE)]
                         /\ dest' = [dest EXCEPT !.tail = w.val.out]
                         /\ UNCHANGED header
                    ELSE LET hd == [header EXCEPT !.length = Some(buf_len - QOI_HEADER_SIZE)]
                         IN  /\ header' = hd
                             /\ dest' = [head |-> HeaderEncode(hd).val, tail |-> w.val.out]
                             /\ ret' = [ret EXCEPT !.res = Ok(QOI_HEADER_SIZE + n_written)]
    /\ LocalsDrop
    /\ UNCHANGED <<data, mode, buf_len, h_in, h_out>>

Init ==
    /\ pc = "start"
    /\ data = <<>>
    /\ header = NoHeader
    /\ mode = "none"
    /\ buf_len = 0
    /\ buf = NoWriter
    /\ index = IndexInit
    /\ px_prev = PxStart
    /\ hash_prev = HashStart
    /\ run = 0
    /\ index_allowed = FALSE
    /\ i = 0
    /\ emitted = <<>>
    /\ dest = NoDest
    /\ ret = [op |-> "none", res |-> Ok(0), arg |-> 0]
    /\ h_in = NoHeader
    /\ h_out = [op |-> "none", res |-> Ok(0)]

Next == New \/ EncodeToBuf \/ EncodeToVec \/ EncodeToStream \/ PixelStep \/ Finish

Spec == Init /\ [][Next]_vars

\* the per-pixel loop on richer images: every 4-byte image of up to MaxPixels
\* pixels, encoded to a vector and, once the length is set, to a stream
NextImpl == NewImage \/ EncodeToVec \/ EncodeToStream \/ PixelStep \/ Finish

SpecImpl == Init /\ [][NextImpl]_vars

\* most pixels of one run handed to the per-pixel loop (SpecRun)
MaxRunPixels == 64

\* the start pixel, the cache's initial content, and a colour that is neither
RunColours == { <<0, 0, 0, 255>>, <<0, 0, 0, 0>>, <<1, 0, 0, 255>> }

\* what follows the run: nothing, or one pixel of another colour
RunTails == { <<>>, << <<10, 10, 10, 255>> >> }

\* Encoder::new on n pixels of one colour and a tail, as an image 1 high
NewRun ==
    /\ pc = "start"
    /\ \E c \in RunColours, n \in 1..MaxRunPixels, t \in RunTails :
          NewOn(Flatten([k \in 1..n |-> c] \o t), n + Len(t), 1)

\* the per-pixel loop on long runs, encoded to a vector
NextRun == NewRun \/ EncodeToVec \/ PixelStep \/ Finish

SpecRun == Init /\ [][NextRun]_vars

----------------------------------------------------------------------------
(* Header operations on their own: try_new on drawn arguments, encode on the    *)
(* header try_new returned, decode on encode's output and on drawn byte strings. *)

HdrDims == {0, 1, 2, 256, 20000, 20001, 65535}

HdrLengths == {None, Some(0), Some(258), Some(2147483647)}

\* byte strings handed to decode: headers with a right or a wrong magic, valid or
\* invalid dimensions, cut to fewer than 12 bytes or followed by one more byte
DecodeInputs ==
    { SubSeq(m \o to_le_bytes(w, 2) \o to_le_bytes(h, 2) \o to_le_bytes(l, 4) \o <<7>>, 1, n) :
        m \in { to_le_bytes(QOI_MAGIC, 4), <<102, 105, 111, 112>>, <<0, 0, 0, 0>> },
        w \in {0, 1, 65535}, h \in {0, 2, 20001}, l \in {0, 258}, n \in {0, 4, 11, 12, 13} }

InitHeader ==
    /\ pc = "start"
    /\ data = <<>>
    /\ header = NoHeader
    /\ mode = "none"
    /\ buf_len = 0
    /\ buf = NoWriter
    /\ index = IndexInit
    /\ px_prev = PxStart
    /\ hash_prev = HashStart
    /\ run = 0
    /\ index_allowed = FALSE
    /\ i = 0
    /\ emitted = <<>>
    /\ dest = NoDest
    /\ ret = [op |-> "none", res |-> Ok(0), arg |-> 0]
    /\ h_out = [op |-> "none", res |-> Ok(0)]
    /\ \/ \E w \in HdrDims, h \in HdrDims, l \in HdrLengths :
             h_in = [width |-> w, height |-> h, length |-> l, bytes |-> <<>>]
       \/ \E b \in DecodeInputs :
             h_in = [width |-> 0, height |-> 0, length |-> None, bytes |-> b]

HdrTryNew ==
    /\ h_out.op = "none"
    /\ h_in.bytes = <<>>
    /\ h_out' = [op |-> "try_new", res |-> try_new(h_in.width, h_in.height, h_in.length)]
    /\ UNCHANGED <<h_in, encVars>>

HdrEncode ==
    /\ h_out.op = "try_new"
    /\ h_out.res.ok
    /\ h_out' = [op |-> "encode", res |-> HeaderEncode(h_out.res.val)]
    /\ UNCHANGED <<h_in, encVars>>

HdrDecode ==
    /\ h_out.op = "encode"
    /\ h_out.res.ok
    /\ h_out' = [op |-> "decode", res |-> HeaderDecode(h_out.res.val)]
    /\ UNCHANGED <<h_in, encVars>>

HdrDecodeBytes ==
    /\ h_out.op = "none"
    /\ h_out' = [op |-> "decode_bytes", res |-> HeaderDecode(h_in.bytes)]
    /\ UNCHANGED <<h_in, encVars>>

NextHeader == HdrTryNew \/ HdrEncode \/ HdrDecode \/ HdrDecodeBytes

SpecHeader == InitHeader /\ [][NextHeader]_vars

----------------------------------------------------------------------------
(* Pixel operations on their own: hash_index and encode_into on drawn pixels. *)

\* the 8-bit delta of each colour channel, as a signed number
PxDeltas == {-128, -33, -32, -9, -8, -3, -2, -1, 0, 1, 2, 7, 8, 31, 32, 127}

PxPrevs == { <<0, 0, 0, 255>>, <<250, 3, 128, 7>> }

\* a pixel and its predecessor: every combination of channel deltas, alpha equal or not
PxPairs ==
    { [p    |-> <<(prev[1] + dr + 256) % 256, (prev[2] + dg + 256) % 256,
                  (prev[3] + db + 256) % 256, (prev[4] + da) % 256>>,
       prev |-> prev] :
        prev \in PxPrevs, dr \in PxDeltas, dg \in PxDeltas, db \in PxDeltas, da \in {0, 1} }

HashChannels == {0, 1, 2, 3, 63, 64, 127, 128, 129, 254, 255}

HashPixels ==
    { [p |-> <<r, g, b, a>>, prev |-> PxStart] :
        r \in HashChannels, g \in HashChannels, b \in HashChannels, a \in HashChannels }

InitPixel ==
    /\ pc = "start"
    /\ data = <<>>
    /\ header = NoHeader
    /\ mode = "none"
    /\ buf_len = 0
    /\ buf = NoWriter
    /\ index = IndexInit
    /\ px_prev = PxStart
    /\ hash_prev = HashStart
    /\ run = 0
    /\ index_allowed = FALSE
    /\ i = 0
    /\ emitted = <<>>
    /\ dest = NoDest
    /\ ret = [op |-> "none", res |-> Ok(0), arg |-> 0]
    /\ h_out = [op |-> "none", res |-> <<>>]
    /\ h_in \in PxPairs \cup HashPixels

PxHashIndex ==
    /\ h_out.op = "none"
    /\ h_out' = [op |-> "hash_index", res |-> <<hash_index(h_in.p)>>]
    /\ UNCHANGED <<h_in, encVars>>

PxEncodeInto ==
    /\ h_out.op = "none"
    /\ h_out' = [op |-> "encode_into", res |-> encode_into(h_in.p, h_in.prev)]
    /\ UNCHANGED <<h_in, encVars>>

NextPixel == PxHashIndex \/ PxEncodeInto

SpecPixel == InitPixel /\ [][NextPixel]_vars

----------------------------------------------------------------------------
(* The format's decoder, as far as the round trip needs it: the previous pixel   *)
(* starts at (0,0,0,255), the 64-slot cache starts zeroed and takes every        *)
(* decoded pixel at its hash index.                                               *)

RECURSIVE Decode(_, _, _, _)
Decode(bytes, px, cache, acc) ==
    IF bytes = <<>> THEN acc
    ELSE LET b1 == Head(bytes)
         IN  IF b1 = QOI_OP_RGBA
             THEN IF Len(bytes) < 5 THEN Append(acc, <<>>)
                  ELSE LET p == <<bytes[2], bytes[3], bytes[4], bytes[5]>>
                       IN  Decode(SubSeq(bytes, 6, Len(bytes)), p,
                                  [cache EXCEPT ![hash_index(p)] = p], Append(acc, p))
             ELSE IF b1 = QOI_OP_RGB
             THEN IF Len(bytes) < 4 THEN Append(acc, <<>>)
                  ELSE LET p == <<bytes[2], bytes[3], bytes[4], px[4]>>
                       IN  Decode(SubSeq(bytes, 5, Len(bytes)), p,
                                  [cache EXCEPT ![hash_index(p)] = p], Append(acc, p))
             ELSE IF b1 >= QOI_OP_RUN
             THEN Decode(Tail(bytes), px, [cache EXCEPT ![hash_index(px)] = px],
                         acc \o [k \in 1..(b1 - QOI_OP_RUN + 1) |-> px])
             ELSE IF b1 >= QOI_OP_LUMA
             THEN IF Len(bytes) < 2 THEN Append(acc, <<>>)
                  ELSE LET p == update_luma(px, b1, bytes[2])
                       IN  Decode(SubSeq(bytes, 3, Len(bytes)), p,
                                  [cache EXCEPT ![hash_index(p)] = p], Append(acc, p))
             ELSE IF b1 >= QOI_OP_DIFF
             THEN LET p == update_diff(px, b1)
                  IN  Decode(Tail(bytes), p, [cache EXCEPT ![hash_index(p)] = p],
                             Append(acc, p))
             ELSE LET p == cache[b1]
                  IN  Decode(Tail(bytes), p, [cache EXCEPT ![hash_index(p)] = p],
                             Append(acc, p))

DecodeStream(bytes) == Decode(bytes, PxStart, [s \in 0..63 |-> PixelNew], <<>>)

----------------------------------------------------------------------------
(* Properties. *)

\* an encoding entry point has returned
Returned == pc = "idle" /\ ret.op \in {"buf", "vec", "stream"}

\* the input holds 4 bytes for each of the header's pixels
FourChannels == Len(data) = 4 * n_pixels(header)

\* the chunk stream of a finished output: what lies before the 8-byte end marker
ChunkStream == SubSeq(dest.tail, 1, Len(dest.tail) - QOI_PADDING_SIZE)

\* C1: lossless round trip. Whenever an entry point has returned successfully for
\* an image of 4 bytes per pixel, decoding the chunk stream it produced yields
\* exactly the input pixel sequence.
C1_RoundTrip ==
    (Returned /\ ret.res.ok /\ FourChannels) => DecodeStream(ChunkStream) = Pixels(data)

\* a finished encoding of <<1,0,0,255>> twice then the zero pixel: a pending run of
\* one closed by the tie-break, then a cache reference
C1_Witness ==
    /\ Returned /\ ret.res.ok /\ FourChannels
    /\ Pixels(data) = << <<1, 0, 0, 255>>, <<1, 0, 0, 255>>, <<0, 0, 0, 0>> >>
    /\ ChunkStream = <<BitOr(QOI_OP_DIFF, 58), hash_index(<<1, 0, 0, 255>>), 0>>

\* C2: after a successful encode_to_buf the header's length field, in the Encoder
\* and in bytes 8..12 of the output, is the number of chunk-stream bytes: the
\* returned total minus the 12-byte header and the 8-byte end marker (stated for
\* images of 4 bytes per pixel).
C2_LengthIsChunkBytes ==
    (Returned /\ ret.op \in {"buf", "vec"} /\ ret.res.ok /\ FourChannels) =>
        /\ header.length = Some(ret.res.val - 12 - 8)
        /\ dest.head[9] + 256 * dest.head[10] + 65536 * dest.head[11]
             + 16777216 * dest.head[12] = ret.res.val - 12 - 8

\* the bytes an entry point produced
Produced == Len(dest.head) + Len(dest.tail)

\* C3: the bytes produced by encoding a width x height image (header, chunk
\* stream, end marker) number at most encode_max_len(width, height), which is
\* header size + 4 * n_pixels + n_pixels + end-marker size.
C3_MaxLen ==
    (Returned /\ ret.res.ok /\ FourChannels) =>
        /\ ret.res.val = Produced
        /\ Produced <= encode_max_len(header.width, header.height)
        /\ encode_max_len(header.width, header.height)
             = QOI_HEADER_SIZE + 4 * (header.width * header.height)
               + header.width * header.height + QOI_PADDING_SIZE

\* four pixels that each need a literal RGBA chunk, written to a stream: the
\* output is exactly encode_max_len long
C3_Witness ==
    /\ Returned /\ ret.res.ok /\ FourChannels
    /\ mode = "stream"
    /\ header.width * header.height = 4
    /\ Produced = encode_max_len(header.width, header.height)

\* C4: encode_to_buf succeeds on every destination of at least required_buf_len()
\* bytes, for every Encoder that Encoder::new accepted.
C4_SizedBufferSucceeds ==
    (Returned /\ ret.op \in {"buf", "vec"} /\ ret.arg >= required_buf_len(header))
        => ret.res.ok

\* C5: no call of encode_to_buf, encode_to_vec or encode_to_stream on an Encoder
\* that Encoder::new returned fails with DataLengthNotSet (stated for images of
\* 4 bytes per pixel).
C5_NoDataLengthNotSet ==
    (Returned /\ FourChannels) => (ret.res.ok \/ ret.res.err.kind # "DataLengthNotSet")

\* C6: with valid dimensions, Encoder::new succeeds exactly when the buffer holds
\* 3 or 4 bytes per pixel, and fails with InvalidImageLength otherwise.
C6_NewAcceptsOnly3Or4 ==
    (pc \in {"idle", "failed"} /\ ret.op = "new"
       /\ ret.arg.width # 0 /\ ret.arg.height # 0) =>
        LET n == ret.arg.width * ret.arg.height
        IN  /\ ret.res.ok <=> ret.arg.size \in {3 * n, 4 * n}
            /\ ~ret.res.ok => ret.res.err.kind = "InvalidImageLength"

\* C7: Header::try_new returns the header of the given width, height and length
\* exactly when both dimensions are non-zero and width * height <= 400,000,000,
\* and InvalidImageDimensions with the given width and height otherwise.
C7_TryNew ==
    h_out.op = "try_new" =>
        LET w == h_in.width
            h == h_in.height
        IN  IF w # 0 /\ h # 0 /\ w <= 400000000 \div h
            THEN /\ h_out.res.ok
                 /\ h_out.res.val = [width |-> w, height |-> h, length |-> h_in.length]
            ELSE /\ ~h_out.res.ok
                 /\ h_out.res.err = InvalidImageDimensions(w, h)

\* try_new accepted exactly 400,000,000 pixels
C7_Witness ==
    /\ h_out.op = "try_new"
    /\ h_out.res.ok
    /\ h_in.width = 20000 /\ h_in.height = 20000 /\ h_in.length = Some(258)

\* C8: Header::encode yields 12 bytes: the magic, width (2 bytes LE), height
\* (2 bytes LE), length (4 bytes LE); decoding them returns the header that was
\* encoded; decode fails with UnexpectedBufferEnd on fewer than 12 bytes and, on
\* 12 or more, with InvalidMagic when the first 4 bytes are not the magic,
\* whatever the dimensions.
C8_HeaderRoundTrip ==
    /\ (h_out.op = "encode" /\ h_out.res.ok) =>
          LET b == h_out.res.val
          IN  /\ Len(b) = 12
              /\ b[1] + 256 * b[2] + 65536 * b[3] + 16777216 * b[4] = QOI_MAGIC
              /\ b[5] + 256 * b[6] = h_in.width
              /\ b[7] + 256 * b[8] = h_in.height
              /\ <<b[9] + 256 * b[10] + 65536 * b[11] + 16777216 * b[12]>> = h_in.length
    /\ h_out.op = "decode" =>
          /\ h_out.res.ok
          /\ h_out.res.val = [width |-> h_in.width, height |-> h_in.height,
                              length |-> h_in.length]
    /\ (h_out.op = "decode_bytes" /\ Len(h_in.bytes) < 12) =>
          /\ ~h_out.res.ok
          /\ h_out.res.err = UnexpectedBufferEnd
    /\ (h_out.op = "decode_bytes" /\ Len(h_in.bytes) >= 12
          /\ SubSeq(h_in.bytes, 1, 4) # to_le_bytes(QOI_MAGIC, 4)) =>
          /\ ~h_out.res.ok
          /\ h_out.res.err.kind = "InvalidMagic"

\* a header of width 256 and the largest modelled length went through encode and decode
C8_Witness ==
    /\ h_out.op = "decode"
    /\ h_out.res.ok
    /\ h_in.width = 256 /\ h_in.height = 20000 /\ h_in.length = Some(2147483647)

\* the pixel before the k-th pixel of the input, k counted from 0
PrevOf(k) == IF k = 0 THEN PxStart ELSE Pixels(data)[k]

\* C9 as claimed: after the iteration for a pixel whose alpha differs from its
\* predecessor's, the chunk written for it is the literal RGBA chunk, whatever the
\* cache holds.
C9_AlphaForcesRGBA ==
    (pc = "loop" /\ i > 0 /\ Pixels(data)[i][4] # PrevOf(i - 1)[4]) =>
        /\ emitted # <<>>
        /\ emitted[Len(emitted)] = <<QOI_OP_RGBA>> \o Pixels(data)[i]

\* C9 amended: an iteration for a pixel whose alpha differs from its predecessor's
\* writes the literal RGBA chunk for it, unless the cache slot at the pixel's hash
\* index already holds the pixel, and then it writes the 1-byte index chunk.
C9_AlphaForcesRGBAOnMiss ==
    [][ (pc = "loop" /\ pc' = "loop" /\ i' = i + 1) =>
          LET px == Pixels(data)[i + 1]
          IN  px[4] # PrevOf(i)[4] =>
                /\ emitted' # <<>>
                /\ emitted'[Len(emitted')] =
                     IF index[hash_index(px)] = px
                     THEN <<BitOr(QOI_OP_INDEX, hash_index(px))>>
                     ELSE <<QOI_OP_RGBA, px[1], px[2], px[3], px[4]>> ]_vars

\* <<0,0,0,128>> right after the start pixel <<0,0,0,255>>: no RGB delta at all,
\* and a literal RGBA chunk was written
C9_Witness ==
    /\ pc = "loop"
    /\ i = 1
    /\ Pixels(data)[1] = <<0, 0, 0, 128>>
    /\ emitted = << <<QOI_OP_RGBA, 0, 0, 0, 128>> >>

\* C10: an iteration for a pixel that differs from its predecessor, which repeated
\* the pixel before it, and whose cache slot already holds it, writes the 1-byte
\* index chunk (tag 00 | slot) for it; the only other chunk of the iteration is the
\* byte closing the run.
C10_IndexAfterRun ==
    [][ (pc = "loop" /\ pc' = "loop" /\ i' = i + 1 /\ i >= 2) =>
          LET P == Pixels(data)
              h == hash_index(P[i + 1])
          IN  (P[i - 1] = P[i] /\ P[i + 1] # P[i] /\ index[h] = P[i + 1]) =>
                /\ Len(emitted') = 2
                /\ Len(emitted'[1]) = 1
                /\ emitted'[2] = <<BitOr(QOI_OP_INDEX, h)>>
                /\ h \in 0..63 ]_vars

\* B, A, A, B for two opaque colours: the fourth pixel was written as the index
\* chunk of the slot the first pixel filled
C10_Witness ==
    /\ pc = "loop"
    /\ i = 4
    /\ Pixels(data) = << <<1, 0, 0, 255>>, <<10, 10, 10, 255>>, <<10, 10, 10, 255>>,
                         <<1, 0, 0, 255>> >>
    /\ emitted = << <<hash_index(<<10, 10, 10, 255>>)>>, <<hash_index(<<1, 0, 0, 255>>)>> >>

\* the k-th pixel of P equals one of the pixels from..k-1, and no different pixel
\* of its hash index lies between the two
SeenSince(P, k, from) ==
    \E j \in from..(k - 1) :
        /\ P[j] = P[k]
        /\ \A m \in (j + 1)..(k - 1) : hash_index(P[m]) = hash_index(P[k]) => P[m] = P[k]

\* the pixels at the head of P that equal the start pixel
RECURSIVE LeadingRun(_)
LeadingRun(P) == IF P = <<>> \/ Head(P) # PxStart THEN 0 ELSE 1 + LeadingRun(Tail(P))

C11_Example == << <<0, 0, 0, 255>>, <<1, 0, 0, 255>>, <<0, 0, 0, 255>> >>

\* C11 as claimed: a pixel that differs from its predecessor and equals an earlier
\* pixel of the image, with no different pixel of the same hash index in between,
\* is written as an index chunk; the image C11_Example has its second pixel
\* written as a diff or luma chunk and its third as the index chunk of the slot
\* of the first.
C11_IndexOnRepeat ==
    (pc = "loop" /\ i > 0) =>
        LET P    == Pixels(data)
            last == emitted[Len(emitted)]
        IN  /\ (P[i] # PrevOf(i - 1) /\ SeenSince(P, i, 1)) =>
                  /\ emitted # <<>>
                  /\ last = <<BitOr(QOI_OP_INDEX, hash_index(P[i]))>>
            /\ (P = C11_Example /\ i = 2) =>
                  /\ emitted # <<>>
                  /\ last[1] >= QOI_OP_DIFF /\ last[1] < QOI_OP_RUN
            /\ (P = C11_Example /\ i = 3) =>
                  /\ emitted # <<>>
                  /\ last = <<BitOr(QOI_OP_INDEX, hash_index(P[1]))>>

\* C11 amended: a pixel that differs from its predecessor and equals an earlier
\* pixel of the image that lies behind the leading run of pixels equal to the
\* start pixel (0,0,0,255), with no different pixel of the same hash index in
\* between, is written as an index chunk; the image C11_Example has its first
\* pixel taken into a run and not stored in the cache, its second written as a
\* diff chunk and its third as a diff chunk too.
C11_IndexOnCachedRepeat ==
    (pc = "loop" /\ i > 0) =>
        LET P    == Pixels(data)
            last == emitted[Len(emitted)]
        IN  /\ (P[i] # PrevOf(i - 1) /\ SeenSince(P, i, LeadingRun(P) + 1)) =>
                  /\ emitted # <<>>
                  /\ last = <<BitOr(QOI_OP_INDEX, hash_index(P[i]))>>
            /\ (P = C11_Example /\ i = 2) =>
                  /\ index[hash_index(P[1])] # P[1]
                  /\ emitted = << <<BitOr(QOI_OP_RUN, 0)>>, <<BitOr(QOI_OP_DIFF, 58)>> >>
            /\ (P = C11_Example /\ i = 3) =>
                  emitted = << <<BitOr(QOI_OP_DIFF, 26)>> >>

\* A, B, A for two opaque colours other than the start pixel: the third pixel was
\* written as the index chunk of the slot the first pixel filled
C11_Witness ==
    /\ pc = "loop"
    /\ i = 3
    /\ Pixels(data) = << <<1, 0, 0, 255>>, <<10, 10, 10, 255>>, <<1, 0, 0, 255>> >>
    /\ emitted = << <<BitOr(QOI_OP_INDEX, hash_index(<<1, 0, 0, 255>>))>> >>

----------------------------------------------------------------------------
(* The chunk layout of the format: a chunk's length follows from its first byte. *)

ChunkLen(b1) ==
    IF b1 = QOI_OP_RGBA THEN 5
    ELSE IF b1 = QOI_OP_RGB THEN 4
    ELSE IF b1 >= QOI_OP_RUN THEN 1
    ELSE IF b1 >= QOI_OP_LUMA THEN 2
    ELSE 1

\* a byte string cut into chunks; a last chunk that is cut short stays as it is
RECURSIVE ChunksOf(_)
ChunksOf(bytes) ==
    IF bytes = <<>> THEN <<>>
    ELSE LET n == ChunkLen(Head(bytes))
         IN  IF n >= Len(bytes) THEN <<bytes>>
             ELSE <<SubSeq(bytes, 1, n)>> \o ChunksOf(SubSeq(bytes, n + 1, Len(bytes)))

\* every chunk has the length its first byte announces
WholeChunks(chunks) == \A k \in 1..Len(chunks) : Len(chunks[k]) = ChunkLen(chunks[k][1])

IsRunChunk(ch) == Len(ch) = 1 /\ ch[1] >= QOI_OP_RUN /\ ch[1] < QOI_OP_RGB

\* the pixels a chunk stands for: the run length of a run chunk, 1 otherwise
PixelsOfChunk(ch) == IF IsRunChunk(ch) THEN ch[1] - QOI_OP_RUN + 1 ELSE 1

RECURSIVE PixelsIn(_)
PixelsIn(chunks) ==
    IF chunks = <<>> THEN 0 ELSE PixelsOfChunk(Head(chunks)) + PixelsIn(Tail(chunks))

\* the image is N > 1 pixels of one colour, and encode_to_vec has returned its encoding
UniformDone ==
    /\ Returned /\ ret.op = "vec" /\ ret.res.ok
    /\ ImplNPixels(data) > 1
    /\ \A k \in 1..ImplNPixels(data) : Pixels(data)[k] = Pixels(data)[1]

\* C12 as claimed: the encoding of N > 1 pixels of one colour, whatever the colour,
\* is one non-run chunk for the first pixel followed by run chunks only, each of
\* length at most 62, whose lengths sum to N - 1.
C12_UniformIsChunkThenRuns ==
    UniformDone =>
        LET chunks == ChunksOf(ChunkStream)
        IN  /\ WholeChunks(chunks)
            /\ ~IsRunChunk(chunks[1])
            /\ \A k \in 2..Len(chunks) : IsRunChunk(chunks[k]) /\ PixelsOfChunk(chunks[k]) <= 62
            /\ PixelsIn(Tail(chunks)) = ImplNPixels(data) - 1

\* C12 amended: the encoding of N > 1 pixels of one colour other than the start
\* pixel (0,0,0,255) is one non-run chunk for the first pixel followed by run chunks
\* only, each of length at most 62, whose lengths sum to N - 1; the encoding of
\* N > 1 pixels of colour (0,0,0,255) is run chunks only, each of length at most
\* 62, whose lengths sum to N.
C12_UniformIsRuns ==
    UniformDone =>
        LET chunks == ChunksOf(ChunkStream)
            first  == IF Pixels(data)[1] = PxStart THEN 1 ELSE 2
        IN  /\ WholeChunks(chunks)
            /\ first = 2 => ~IsRunChunk(chunks[1])
            /\ \A k \in first..Len(chunks) :
                  IsRunChunk(chunks[k]) /\ PixelsOfChunk(chunks[k]) <= 62
            /\ PixelsIn(SubSeq(chunks, first, Len(chunks))) = ImplNPixels(data) - (first - 1)

\* 64 pixels of colour (1,0,0,255): a diff chunk, a run of 62 and a run of 1
C12_Witness ==
    /\ UniformDone
    /\ ImplNPixels(data) = 64
    /\ ChunkStream = <<BitOr(QOI_OP_DIFF, 58), BitOr(QOI_OP_RUN, 61), BitOr(QOI_OP_RUN, 0)>>

\* C13: a successful encode_to_buf leaves in the destination, in this order, the
\* 12-byte header (magic, width, height, length), the chunk stream (whole chunks,
\* standing for the data.len() / 4 pixels read) and the 8-byte end marker, seven
\* 0x00 bytes then one 0x01 byte, as the last bytes written; the returned count is
\* 12 + chunk-stream bytes + 8.
C13_OutputLayout ==
    (Returned /\ ret.op \in {"buf", "vec"} /\ ret.res.ok) =>
        LET out     == dest.head \o dest.tail
            n       == Len(out)
            stream  == SubSeq(out, 13, n - 8)
        IN  /\ n >= 12 + 8
            /\ SubSeq(out, 1, 4) = to_le_bytes(QOI_MAGIC, 4)
            /\ out[5] + 256 * out[6] = header.width
            /\ out[7] + 256 * out[8] = header.height
            /\ WholeChunks(ChunksOf(stream))
            /\ PixelsIn(ChunksOf(stream)) = ImplNPixels(data)
            /\ SubSeq(out, n - 7, n) = <<0, 0, 0, 0, 0, 0, 0, 1>>
            /\ ret.res.val = 12 + Len(stream) + 8
            /\ ret.res.val = n

\* encode_to_buf returned 26 for the 2x1 image (0,0,0,0), (0,0,0,128): 12 header
\* bytes, an index chunk and a literal RGBA chunk, 8 end-marker bytes
C13_Witness ==
    /\ Returned /\ ret.op = "buf" /\ ret.res.ok
    /\ header.width = 2
    /\ dest.tail = <<BitOr(QOI_OP_INDEX, 0), QOI_OP_RGBA, 0, 0, 0, 128>> \o QOI_PADDING
    /\ ret.res.val = 26

\* C14: between two pixels of the loop the run counter is in 0..61, and it is 0
\* after every iteration that wrote a chunk (a counter of 62 is written and reset
\* within its iteration); every run chunk written carries a low-6-bit field in
\* 0..61, that is a run length of 1..62, and is neither the literal RGB nor the
\* literal RGBA tag byte.
C14_RunBounded ==
    pc = "loop" =>
        /\ run \in 0..61
        /\ emitted # <<>> => run = 0
        /\ \A k \in 1..Len(emitted) :
              (Len(emitted[k]) = 1 /\ emitted[k][1] >= QOI_OP_RUN) =>
                  /\ BitAnd(emitted[k][1], 63) \in 0..61
                  /\ emitted[k][1] - QOI_OP_RUN + 1 \in 1..62
                  /\ emitted[k][1] # QOI_OP_RGB
                  /\ emitted[k][1] # QOI_OP_RGBA

\* the 62nd pixel of a run of the start pixel has just been written as the run
\* chunk of length 62, and the counter is back at 0 with pixels left to read
C14_Witness ==
    /\ pc = "loop"
    /\ i = 62
    /\ i < ImplNPixels(data)
    /\ run = 0
    /\ emitted = << <<BitOr(QOI_OP_RUN, 61)>> >>

\* C15: for every Encoder that Encoder::new accepted, when the loop has read its
\* last pixel the run counter is 0, and when an entry point has returned
\* successfully the chunks it wrote stand for width * height pixels, a run chunk
\* for its run length and every other chunk for 1 (stated for buffers of 3 or 4
\* bytes per pixel).
C15_EveryPixelAccounted ==
    /\ (pc = "loop" /\ i = ImplNPixels(data)) => run = 0
    /\ (Returned /\ ret.res.ok
          /\ Len(data) \in {3 * n_pixels(header), 4 * n_pixels(header)}) =>
          /\ WholeChunks(ChunksOf(ChunkStream))
          /\ PixelsIn(ChunksOf(ChunkStream)) = header.width * header.height

\* C16: inside the loop every cache slot 0..63 holds the zero pixel (0,0,0,0) or a
\* pixel of the input read so far whose hash index is the slot's number, the
\* slots 64..255 hold the zero pixel, and the loop of every call, a first or a
\* later one, starts from the all-zero cache.
C16_CacheInvariant ==
    pc = "loop" =>
        /\ \A s \in 0..63 :
              \/ index[s] = <<0, 0, 0, 0>>
              \/ /\ hash_index(index[s]) = s
                 /\ \E k \in 1..i : Pixels(data)[k] = index[s]
        /\ \A s \in 64..255 : index[s] = <<0, 0, 0, 0>>
        /\ i = 0 => \A s \in 0..255 : index[s] = <<0, 0, 0, 0>>

\* the second call on one Encoder, to a stream, after two of three pixels:
\* (64,0,0,255) has replaced (0,64,0,255) in the slot the two share with the start
\* pixel, and the slot that the first call filled with the third pixel is zero
C16_Witness ==
    /\ pc = "loop"
    /\ mode = "stream"
    /\ i = 2
    /\ Pixels(data) = << <<0, 64, 0, 255>>, <<64, 0, 0, 255>>, <<1, 0, 0, 255>> >>
    /\ index[hash_index(<<0, 0, 0, 255>>)] = <<64, 0, 0, 255>>
    /\ \A s \in 0..255 : s # hash_index(<<0, 0, 0, 255>>) => index[s] = <<0, 0, 0, 0>>

\* C17: in every state of the loop the flag index_allowed is true exactly when a
\* pixel other than the start pixel has been read, and then the cache slot at
\* hash_prev holds the previous pixel; an iteration that closes a pending run of 1
\* writes for it the index chunk of hash_prev, which denotes the previous pixel,
\* when the flag is true, and the plain run chunk of length 1 when it is false.
C17_TieBreakSound ==
    [][ /\ pc' = "loop" =>
             /\ index_allowed' <=> (\E k \in 1..i' : Pixels(data')[k] # PxStart)
             /\ index_allowed' =>
                   /\ hash_prev' = hash_index(px_prev')
                   /\ index'[hash_prev'] = px_prev'
        /\ (pc = "loop" /\ pc' = "loop" /\ i' = i + 1 /\ run = 1
              /\ Pixels(data)[i + 1] # px_prev) =>
             IF index_allowed
             THEN /\ emitted'[1] = <<BitOr(QOI_OP_INDEX, hash_prev)>>
                  /\ index[emitted'[1][1]] = px_prev
             ELSE /\ emitted'[1] = <<BitOr(QOI_OP_RUN, 0)>>
                  /\ index[hash_prev] # px_prev ]_vars

\* the start pixel then (1,0,0,255): the pending run of 1 was closed by a plain run
\* chunk, the flag being false until this second pixel
C17_Witness ==
    /\ pc = "loop"
    /\ i = 2
    /\ Pixels(data) = << <<0, 0, 0, 255>>, <<1, 0, 0, 255>> >>
    /\ emitted = << <<BitOr(QOI_OP_RUN, 0)>>, <<BitOr(QOI_OP_DIFF, 58)>> >>
    /\ index_allowed

\* a wrapping 8-bit difference read as a signed number
Signed(d) == IF d >= 128 THEN d - 256 ELSE d

\* the chunk of the priority order for p after prev, from the signed deltas
PriorityChunk(p, prev) ==
    LET dr == Signed((p[1] - prev[1] + 256) % 256)
        dg == Signed((p[2] - prev[2] + 256) % 256)
        db == Signed((p[3] - prev[3] + 256) % 256)
    IN  IF p[4] # prev[4]
        THEN <<QOI_OP_RGBA, p[1], p[2], p[3], p[4]>>
        ELSE IF dr \in -2..1 /\ dg \in -2..1 /\ db \in -2..1
        THEN <<QOI_OP_DIFF + 16 * (dr + 2) + 4 * (dg + 2) + (db + 2)>>
        ELSE IF dg \in -32..31 /\ dr - dg \in -8..7 /\ db - dg \in -8..7
        THEN <<QOI_OP_LUMA + (dg + 32), 16 * (dr - dg + 8) + (db - dg + 8)>>
        ELSE <<QOI_OP_RGB, p[1], p[2], p[3]>>

\* the byte costs of the chunks that can carry p after prev
ApplicableCosts(p, prev) ==
    LET dr == Signed((p[1] - prev[1] + 256) % 256)
        dg == Signed((p[2] - prev[2] + 256) % 256)
        db == Signed((p[3] - prev[3] + 256) % 256)
    IN  {5}
        \cup (IF p[4] = prev[4] THEN {4} ELSE {})
        \cup (IF p[4] = prev[4] /\ dg \in -32..31 /\ dr - dg \in -8..7 /\ db - dg \in -8..7
              THEN {2} ELSE {})
        \cup (IF p[4] = prev[4] /\ dr \in -2..1 /\ dg \in -2..1 /\ db \in -2..1
              THEN {1} ELSE {})

\* C18: encode_into writes the chunk of the priority order (literal RGBA if alpha
\* differs, else diff if the three deltas are in -2..1, else luma if dg is in
\* -32..31 and dr-dg, db-dg are in -8..7, else literal RGB), which is the cheapest
\* chunk that can carry the pixel; a pair in the luma ranges is never written as
\* literal RGB.
C18_CheapestChunk ==
    h_out.op = "encode_into" =>
        LET p    == h_in.p
            prev == h_in.prev
            dr   == Signed((p[1] - prev[1] + 256) % 256)
            dg   == Signed((p[2] - prev[2] + 256) % 256)
            db   == Signed((p[3] - prev[3] + 256) % 256)
        IN  /\ h_out.res = PriorityChunk(p, prev)
            /\ \A c \in ApplicableCosts(p, prev) : Len(h_out.res) <= c
            /\ (p[4] = prev[4] /\ dg \in -32..31 /\ dr - dg \in -8..7 /\ db - dg \in -8..7)
                  => h_out.res[1] # QOI_OP_RGB

\* the luma chunk for dg = 0, dr = 7, db = -8 after (250,3,128,7)
C18_Witness ==
    /\ h_out.op = "encode_into"
    /\ h_in.prev = <<250, 3, 128, 7>>
    /\ h_in.p = <<1, 3, 120, 7>>
    /\ h_out.res = <<QOI_OP_LUMA + 32, 240>>

\* C19: hash_index returns a value in 0..63 that equals the reference hash
\* (3*r + 5*g + 7*b + 11*a) mod 64; the top byte of the 64-bit wrapping product
\* is (3*r + 5*g + 7*b + 11*a) mod 256, no carry or cross term of the lower
\* lanes reaching it.
C19_ReferenceHash ==
    h_out.op = "hash_index" =>
        LET p   == h_in.p
            ref == 3 * p[1] + 5 * p[2] + 7 * p[3] + 11 * p[4]
        IN  /\ h_out.res[1] \in 0..63
            /\ h_out.res[1] = ref % 64
            /\ WrappingMul64(HashSpread(PixelAsU64(p)), HashMul)[4] \div 256 = ref % 256

\* the all-ones pixel: 26 * 255 = 6630, and 6630 mod 64 = 38
C19_Witness ==
    /\ h_out.op = "hash_index"
    /\ h_in.p = <<255, 255, 255, 255>>
    /\ h_out.res = <<38>>

\* C20: a call of encode_to_buf (or of encode_to_vec through it) ends with
\* OutputBufferTooSmall exactly when the destination is shorter than
\* required_buf_len(), and then no byte of the destination has been written and
\* the Encoder's data and header, header.length included, are what they were.
C20_TooSmallWritesNothing ==
    [][ (pc \in {"idle", "loop"} /\ pc' = "idle" /\ ret'.op \in {"buf", "vec"}) =>
          LET failed == ~ret'.res.ok /\ ret'.res.err.kind = "OutputBufferTooSmall"
          IN  /\ failed <=> ret'.arg < required_buf_len(header)
              /\ failed =>
                    /\ dest'.head = <<>> /\ dest'.tail = <<>>
                    /\ header' = header
                    /\ data' = data ]_vars

====
